---- MODULE Spec2Model ----
(***************************************************************************)
(* combine_atlases.py: a one-shot batch script that appends two rows of    *)
(* font glyphs below a tileset image and writes the combined atlas.        *)
(*                                                                         *)
(* The script is modelled statement by statement.  Images are records      *)
(* [width, height, px], px the rows of RGBA 4-tuples; Image.new, crop and  *)
(* paste are operators that compute what Pillow computes, including the    *)
(* clipping of a pasted block against the destination's bounds.            *)
(***************************************************************************)
EXTENDS Integers, Sequences, FiniteSets

(* ------------------------------------------------------------------ *)
(* Configuration constants of the script (lines 17-20)                 *)
(* ------------------------------------------------------------------ *)
TILE_SIZE == 12
SPACING == 1
FONT_GRID == 16
ROWS_TO_ADD == 2

(* ------------------------------------------------------------------ *)
(* Bounds of the model                                                 *)
(* ------------------------------------------------------------------ *)
\* command lines carry 0..MaxArgs arguments after the script name
MaxArgs == 3
\* small tilesets: every width 1..MaxSmallW with every height 1..MaxSmallH
MaxSmallW == 40
MaxSmallH == 2
\* wide tilesets exceed the 256-glyph supply by ExtraTiles columns
ExtraTiles == 2

FontCells == FONT_GRID * FONT_GRID

\* width of a tileset laid out as t tiles with a 1px border on both sides
LayoutWidth(t) == t * (TILE_SIZE + SPACING) + SPACING

SmallSizes == (1..MaxSmallW) \X (1..MaxSmallH)
\* the scenario of the specification: 200x100
ScenarioSizes == {<<200, 100>>}
\* two rows hold exactly 256 cells; a few more than 256; one row holds more than 256
WideTiles == { FontCells \div ROWS_TO_ADD,
               FontCells \div ROWS_TO_ADD + ExtraTiles,
               FontCells + ExtraTiles }
\* the last of them also without the borders, so that its last column is cut
WideSizes == { <<LayoutWidth(t), 1>> : t \in WideTiles }
                \cup { <<LayoutWidth(FontCells + ExtraTiles) - 2 * SPACING, 1>> }
Sizes == SmallSizes \cup ScenarioSizes \cup WideSizes

(* ------------------------------------------------------------------ *)
(* Pixels and images                                                   *)
(* ------------------------------------------------------------------ *)
TRANSPARENT == <<0, 0, 0, 0>>
WHITE == <<255, 255, 255, 255>>

\* Contents of the two input files.  Each pixel encodes where it comes from,
\* so that a block copied from or to the wrong place is distinguishable; no
\* input pixel is transparent or white.
TilesetPixel(x, y) == <<x % 256, y % 256, 1, 255>>
FontPixel(x, y) == <<x % 256, y % 256, 2, 255>>

NoHeader == [width |-> 0, height |-> 0]
NoImage == [width |-> 0, height |-> 0, px |-> <<>>]

\* px is a sequence of rows, each a sequence of pixels: the pixel at (x, y),
\* both counted from 0, is px[y + 1][x + 1]
Pixel(im, x, y) == im.px[y + 1][x + 1]

InImage(im, x, y) == x >= 0 /\ x < im.width /\ y >= 0 /\ y < im.height

Max(a, b) == IF a >= b THEN a ELSE b
Min(a, b) == IF a <= b THEN a ELSE b

\* Image.new(mode, (w, h), color)
ImageNew(w, h, color) ==
    [width |-> w, height |-> h,
     px |-> [y \in 1..h |-> [x \in 1..w |-> color]]]

\* the decoded pixels of the tileset file
TilesetImage(hdr) ==
    [width |-> hdr.width, height |-> hdr.height,
     px |-> [y \in 1..hdr.height |->
               [x \in 1..hdr.width |-> TilesetPixel(x - 1, y - 1)]]]

\* font.crop((x0, y0, x1, y1)): pixels outside the font image read as zero
Crop(hdr, x0, y0, x1, y1) ==
    [width |-> x1 - x0, height |-> y1 - y0,
     px |-> [y \in 1..(y1 - y0) |->
               [x \in 1..(x1 - x0) |->
                  IF /\ x0 + x - 1 >= 0 /\ x0 + x - 1 < hdr.width
                     /\ y0 + y - 1 >= 0 /\ y0 + y - 1 < hdr.height
                  THEN FontPixel(x0 + x - 1, y0 + y - 1)
                  ELSE TRANSPARENT]]]

\* the rows of dst with the box [x0, x1) x [y0, y1) taken from src placed at
\* (dx, dy): in each row of the box the span of the source row replaces the
\* span it covers
PasteBox(dst, src, dx, dy, x0, x1, y0, y1) ==
    SubSeq(dst.px, 1, y0)
    \o [y \in 1..(y1 - y0) |->
          SubSeq(dst.px[y0 + y], 1, x0)
          \o SubSeq(src.px[y0 + y - dy], x0 - dx + 1, x1 - dx)
          \o SubSeq(dst.px[y0 + y], x1 + 1, dst.width)]
    \o SubSeq(dst.px, y1 + 1, dst.height)

\* dst.paste(src, (dx, dy)): the destination box is clipped against dst; a
\* box that is empty after clipping changes nothing
Paste(dst, src, dx, dy) ==
    IF \/ Min(dx + src.width, dst.width) <= Max(dx, 0)
       \/ Min(dy + src.height, dst.height) <= Max(dy, 0)
    THEN dst
    ELSE [dst EXCEPT !.px =
            PasteBox(dst, src, dx, dy,
                     Max(dx, 0), Min(dx + src.width, dst.width),
                     Max(dy, 0), Min(dy + src.height, dst.height))]

(* ------------------------------------------------------------------ *)
(* Geometry                                                            *)
(* ------------------------------------------------------------------ *)
\* variant: only a missing argument is rejected
ArgCountTooFew(n) == n < 2
ArgCountWrong(n) == n # 2

\* variant: the spacing is left out of the column count
TilesPerRowNoSpacing(w) == w \div (TILE_SIZE + SPACING)
TilesPerRow(w) == (w + SPACING) \div (TILE_SIZE + SPACING)


\* variant: the bottom border is left out
NewHeightNoBorder(h) == h + (ROWS_TO_ADD * (TILE_SIZE + SPACING))
NewHeight(h) == h + (ROWS_TO_ADD * (TILE_SIZE + SPACING)) + SPACING

StartY(h) == h + SPACING


\* variants: the glyph supply test is off by one, or counts a supply per row
FontExhaustedLate(g) == g > FONT_GRID * FONT_GRID
FontExhaustedPerRow(g) == g >= FONT_GRID * FONT_GRID * ROWS_TO_ADD
FontExhausted(g) == g >= FONT_GRID * FONT_GRID


\* variant: the font atlas is read as if its cells were spaced like the tileset's
font_x_spaced(g) == (g % FONT_GRID) * (TILE_SIZE + SPACING)
font_x(g) == (g % FONT_GRID) * TILE_SIZE
font_y(g) == (g \div FONT_GRID) * TILE_SIZE


\* variants: the left border, or the offset below the tileset, is left out
dest_x_no_border(c) == c * (TILE_SIZE + SPACING)
dest_y_no_start(sy, r) == r * (TILE_SIZE + SPACING)
dest_x(c) == SPACING + c * (TILE_SIZE + SPACING)
dest_y(sy, r) == sy + r * (TILE_SIZE + SPACING)

last_col(tpr) == tpr - 1
last_row == ROWS_TO_ADD - 1
last_x(tpr) == SPACING + last_col(tpr) * (TILE_SIZE + SPACING)
last_y(sy) == sy + last_row * (TILE_SIZE + SPACING)

(* ------------------------------------------------------------------ *)
(* State                                                               *)
(* ------------------------------------------------------------------ *)
VARIABLES
    pc,             \* position in the script
    argv,           \* sys.argv
    tileset,        \* header of the opened tileset, NoHeader before
    font,           \* header of the opened font atlas, NoHeader before
    tiles_per_row,
    new_height,
    start_y,
    combined,       \* the canvas, NoImage before it is created
    glyph_index,
    row,
    col,
    pastes,         \* history: every combined.paste call, in order
    io,             \* history: every file operation, in order
    stdout,
    exit_status,    \* -1 while running
    output_file     \* image stored at output_path, NoImage while unwritten

vars == <<pc, argv, tileset, font, tiles_per_row, new_height, start_y, combined,
          glyph_index, row, col, pastes, io, stdout, exit_status, output_file>>

ArgvOf(n) ==
    [i \in 1..(n + 1) |->
        IF i = 1 THEN "combine_atlases.py"
        ELSE IF i = 2 THEN "out.png" ELSE "extra"]

Init ==
    /\ pc = "start"
    /\ \E n \in 0..MaxArgs : argv = ArgvOf(n)
    /\ tileset = NoHeader
    /\ font = NoHeader
    /\ tiles_per_row = 0
    /\ new_height = 0
    /\ start_y = 0
    /\ combined = NoImage
    /\ glyph_index = 0
    /\ row = 0
    /\ col = 0
    /\ pastes = <<>>
    /\ io = <<>>
    /\ stdout = <<>>
    /\ exit_status = -1
    /\ output_file = NoImage

(* ------------------------------------------------------------------ *)
(* Steps of the script                                                 *)
(* ------------------------------------------------------------------ *)
\* lines 10-12
UsageExit ==
    /\ pc = "start"
    /\ ArgCountWrong(Len(argv))
    /\ stdout' = Append(stdout, <<"Usage: combine_atlases.py <output.png>">>)
    /\ exit_status' = 1
    /\ pc' = "exited"
    /\ UNCHANGED <<argv, tileset, font, tiles_per_row, new_height, start_y,
                   combined, glyph_index, row, col, pastes, io, output_file>>

\* lines 10, 14
ArgsOk ==
    /\ pc = "start"
    /\ ~ArgCountWrong(Len(argv))
    /\ pc' = "open_tileset"
    /\ UNCHANGED <<argv, tileset, font, tiles_per_row, new_height, start_y,
                   combined, glyph_index, row, col, pastes, io, stdout,
                   exit_status, output_file>>

\* an uncaught exception ends the interpreter with status 1
Raise(event) ==
    /\ io' = Append(io, event)
    /\ exit_status' = 1
    /\ pc' = "failed"

\* line 23, the file opens
OpenTileset ==
    /\ pc = "open_tileset"
    /\ \E s \in Sizes : tileset' = [width |-> s[1], height |-> s[2]]
    /\ io' = Append(io, "open_tileset")
    /\ pc' = "open_font"
    /\ UNCHANGED <<argv, font, tiles_per_row, new_height, start_y, combined,
                   glyph_index, row, col, pastes, stdout, exit_status,
                   output_file>>

\* line 23, Image.open raises
OpenTilesetFails ==
    /\ pc = "open_tileset"
    /\ Raise("open_tileset_error")
    /\ UNCHANGED <<argv, tileset, font, tiles_per_row, new_height, start_y,
                   combined, glyph_index, row, col, pastes, stdout, output_file>>

\* line 24, the file opens: a 16x16 grid of 12x12 glyphs
OpenFont ==
    /\ pc = "open_font"
    /\ font' = [width |-> FONT_GRID * TILE_SIZE, height |-> FONT_GRID * TILE_SIZE]
    /\ io' = Append(io, "open_font")
    /\ pc' = "geometry"
    /\ UNCHANGED <<argv, tileset, tiles_per_row, new_height, start_y, combined,
                   glyph_index, row, col, pastes, stdout, exit_status,
                   output_file>>


\* variant: the error of line 24 is swallowed and the script goes on
OpenFontFailsSwallowed ==
    /\ pc = "open_font"
    /\ io' = Append(io, "open_font_error")
    /\ pc' = "geometry"
    /\ UNCHANGED <<argv, tileset, font, tiles_per_row, new_height, start_y,
                   combined, glyph_index, row, col, pastes, stdout, exit_status,
                   output_file>>
\* line 24, Image.open raises
OpenFontFails ==
    /\ pc = "open_font"
    /\ Raise("open_font_error")
    /\ UNCHANGED <<argv, tileset, font, tiles_per_row, new_height, start_y,
                   combined, glyph_index, row, col, pastes, stdout, output_file>>

\* lines 27-34
CreateCanvas ==
    /\ pc = "geometry"
    /\ tiles_per_row' = TilesPerRow(tileset.width)
    /\ new_height' = NewHeight(tileset.height)
    /\ combined' = ImageNew(tileset.width, NewHeight(tileset.height), TRANSPARENT)
    /\ pc' = "paste_tileset"
    /\ UNCHANGED <<argv, tileset, font, start_y, glyph_index, row, col, pastes,
                   io, stdout, exit_status, output_file>>

\* lines 37-43
PasteTileset ==
    /\ pc = "paste_tileset"
    /\ combined' = Paste(combined, TilesetImage(tileset), 0, 0)
    /\ pastes' = Append(pastes, [kind |-> "tileset", sx |-> 0, sy |-> 0,
                                 dx |-> 0, dy |-> 0])
    /\ start_y' = StartY(tileset.height)
    /\ glyph_index' = 0
    /\ row' = 0
    /\ pc' = "row_loop"
    /\ UNCHANGED <<argv, tileset, font, tiles_per_row, new_height, col, io,
                   stdout, exit_status, output_file>>

\* line 44, a row remains
EnterRow ==
    /\ pc = "row_loop"
    /\ row < ROWS_TO_ADD
    /\ col' = 0
    /\ pc' = "col_loop"
    /\ UNCHANGED <<argv, tileset, font, tiles_per_row, new_height, start_y,
                   combined, glyph_index, row, pastes, io, stdout, exit_status,
                   output_file>>

\* line 44, range(ROWS_TO_ADD) is exhausted
ExitRows ==
    /\ pc = "row_loop"
    /\ row >= ROWS_TO_ADD
    /\ pc' = "white"
    /\ UNCHANGED <<argv, tileset, font, tiles_per_row, new_height, start_y,
                   combined, glyph_index, row, col, pastes, io, stdout,
                   exit_status, output_file>>

\* lines 50-61 for glyph g and column c of the current row: crop and paste
GlyphPaste(cv, g, c) ==
    Paste(cv,
          Crop(font, font_x(g), font_y(g), font_x(g) + TILE_SIZE, font_y(g) + TILE_SIZE),
          dest_x(c), dest_y(start_y, row))

GlyphRecord(g, c) ==
    [kind |-> "glyph", sx |-> font_x(g), sy |-> font_y(g),
     dx |-> dest_x(c), dy |-> dest_y(start_y, row)]

\* the canvas cv after iterations lo .. hi-1 of the column loop, counted from
\* the current one.  The run is split in halves, and cv is read before the
\* halves are entered, which keeps TLC's evaluation shallow; a canvas without
\* columns would take no paste anyway.
RECURSIVE CanvasRun(_, _, _)
CanvasRun(cv, lo, hi) ==
    IF hi <= lo \/ cv.width = 0 THEN cv
    ELSE IF hi = lo + 1 THEN GlyphPaste(cv, glyph_index + lo, col + lo)
    ELSE CanvasRun(CanvasRun(cv, lo, (lo + hi) \div 2), (lo + hi) \div 2, hi)

\* the canvas after the next n iterations of the column loop
CanvasAfter(n) == CanvasRun(combined, 0, n)

\* lines 45-47: how many iterations in a row paste, from column c and index
\* g: the first k at which the columns are used up or the break is taken
RunLength(c, g) ==
    IF c >= tiles_per_row THEN 0
    ELSE LET stops == {k \in 0..(tiles_per_row - c) :
                          k = tiles_per_row - c \/ FontExhausted(g + k)}
         IN CHOOSE k \in stops : \A j \in stops : k <= j

\* lines 45-63: iterations that paste.  One iteration is a step of its own;
\* at the start of a row the whole run of pasting iterations is also taken as
\* one step, which reaches no state that single iterations do not reach.
PasteGlyph ==
    /\ pc = "col_loop"
    /\ RunLength(col, glyph_index) >= 1
    /\ \E n \in {1} \cup (IF col = 0 THEN {RunLength(col, glyph_index)} ELSE {}) :
          /\ combined' = CanvasAfter(n)
          /\ pastes' = pastes \o [k \in 1..n |->
                                    GlyphRecord(glyph_index + k - 1, col + k - 1)]
          /\ glyph_index' = glyph_index + n
          /\ col' = col + n
    /\ UNCHANGED <<pc, argv, tileset, font, tiles_per_row, new_height, start_y,
                   row, io, stdout, exit_status, output_file>>

\* lines 46-47: break leaves the column loop, the row loop goes on
BreakInner ==
    /\ pc = "col_loop"
    /\ col < tiles_per_row
    /\ FontExhausted(glyph_index)
    /\ row' = row + 1
    /\ pc' = "row_loop"
    /\ UNCHANGED <<argv, tileset, font, tiles_per_row, new_height, start_y,
                   combined, glyph_index, col, pastes, io, stdout, exit_status,
                   output_file>>

\* line 45, range(tiles_per_row) is exhausted
EndInner ==
    /\ pc = "col_loop"
    /\ col >= tiles_per_row
    /\ row' = row + 1
    /\ pc' = "row_loop"
    /\ UNCHANGED <<argv, tileset, font, tiles_per_row, new_height, start_y,
                   combined, glyph_index, col, pastes, io, stdout, exit_status,
                   output_file>>

\* lines 66-71
WhiteTile ==
    /\ pc = "white"
    /\ LET lx == last_x(tiles_per_row)
           ly == last_y(start_y)
           white_tile == ImageNew(TILE_SIZE, TILE_SIZE, WHITE)
       IN /\ combined' = Paste(combined, white_tile, lx, ly)
          /\ pastes' = Append(pastes, [kind |-> "white", sx |-> 0, sy |-> 0,
                                       dx |-> lx, dy |-> ly])
    /\ pc' = "save"
    /\ UNCHANGED <<argv, tileset, font, tiles_per_row, new_height, start_y,
                   glyph_index, row, col, io, stdout, exit_status, output_file>>

\* lines 74-76, the file is written; the script ends with status 0
Save ==
    /\ pc = "save"
    /\ output_file' = combined
    /\ io' = Append(io, "save")
    /\ stdout' = stdout \o << <<"Created", argv[2], combined.width, combined.height>>,
                              <<"Added", glyph_index, ROWS_TO_ADD>> >>
    /\ exit_status' = 0
    /\ pc' = "done"
    /\ UNCHANGED <<argv, tileset, font, tiles_per_row, new_height, start_y,
                   combined, glyph_index, row, col, pastes>>

\* line 74, combined.save raises
SaveFails ==
    /\ pc = "save"
    /\ Raise("save_error")
    /\ UNCHANGED <<argv, tileset, font, tiles_per_row, new_height, start_y,
                   combined, glyph_index, row, col, pastes, stdout, output_file>>

Next ==
    \/ UsageExit
    \/ ArgsOk
    \/ OpenTileset
    \/ OpenTilesetFails
    \/ OpenFont
    \/ OpenFontFails
    \/ CreateCanvas
    \/ PasteTileset
    \/ EnterRow
    \/ ExitRows
    \/ PasteGlyph
    \/ BreakInner
    \/ EndInner
    \/ WhiteTile
    \/ Save
    \/ SaveFails

Spec == Init /\ [][Next]_vars

(* ------------------------------------------------------------------ *)
(* Properties                                                          *)
(* ------------------------------------------------------------------ *)
W == tileset.width
H == tileset.height

IsGlyph(p) == p.kind = "glyph"
GlyphPastes == SelectSeq(pastes, IsGlyph)

UsageLine == "Usage: combine_atlases.py <output.png>"

\* every pixel of the 12x12 cell at (x0, y0) that lies inside im has colour c
CellIs(im, x0, y0, c) ==
    \A i \in 0..11, j \in 0..11 :
        InImage(im, x0 + i, y0 + j) => Pixel(im, x0 + i, y0 + j) = c

HasSize(im, w, h) ==
    /\ im.width = w
    /\ im.height = h
    /\ Len(im.px) = h
    /\ \A y \in 1..Len(im.px) : Len(im.px[y]) = w

\* C1: the canvas is W wide and H + 27 high from its creation to the save,
\* and so is the written file; the size reported on stdout is the same.
C1_CanvasSize ==
    /\ combined # NoImage => HasSize(combined, W, H + 27)
    /\ output_file # NoImage =>
          /\ HasSize(output_file, W, H + 27)
          /\ stdout[1] = <<"Created", argv[2], W, H + 27>>

\* C1 witness: the scenario 200x100 has been saved as 200x127
C1_Witness ==
    /\ pc = "done"
    /\ W = 200 /\ H = 100
    /\ output_file.width = 200 /\ output_file.height = 127

SameAsTileset(im) ==
    \A y \in 0..(H - 1), x \in 0..(W - 1) : Pixel(im, x, y) = TilesetPixel(x, y)

\* C2: once the tileset is pasted, the region [0,W) x [0,H) of the canvas
\* equals the source tileset, through every later paste and in the output.
C2_TilesetRegionPreserved ==
    /\ Len(pastes) > 0 => SameAsTileset(combined)
    /\ output_file # NoImage => SameAsTileset(output_file)

\* C2 witness: a run that pasted glyphs and the white cell below a tileset
\* two rows high has been saved
C2_Witness ==
    /\ pc = "done"
    /\ H = 2
    /\ Len(GlyphPastes) > 0
    /\ pastes[Len(pastes)].kind = "white"

\* C3: with tiles_per_row = floor((W+1)/13), the number of glyph pastes and
\* the glyph count printed on stdout are both min(tiles_per_row*2, 256).
C3_GlyphCount ==
    pc = "done" =>
       LET n == Min(((W + 1) \div 13) * 2, 256)
       IN /\ tiles_per_row = (W + 1) \div 13
          /\ Len(GlyphPastes) = n
          /\ glyph_index = n
          /\ stdout[Len(stdout)] = <<"Added", n, 2>>

\* C3 witness: a finished run whose two rows hold more than 256 cells
C3_Witness ==
    /\ pc = "done"
    /\ tiles_per_row * 2 > 256
    /\ glyph_index = 256

\* C4: the k-th glyph paste (k from 0) reads the font cell at
\* ((k mod 16)*12, (k div 16)*12) and writes at
\* (1 + (k mod tiles_per_row)*13, H + 1 + (k div tiles_per_row)*13); in the
\* output each such cell, except the white one, shows that font cell.
C4_GlyphOrder ==
    /\ \A k \in 0..(Len(GlyphPastes) - 1) :
          LET p == GlyphPastes[k + 1]
          IN /\ p.sx = (k % 16) * 12
             /\ p.sy = (k \div 16) * 12
             /\ p.dx = 1 + (k % tiles_per_row) * 13
             /\ p.dy = H + 1 + (k \div tiles_per_row) * 13
    /\ output_file # NoImage =>
          \A k \in 0..(glyph_index - 1) :
             k # 2 * tiles_per_row - 1 =>
                \A i \in 0..11, j \in 0..11 :
                   LET x == 1 + (k % tiles_per_row) * 13 + i
                       y == H + 1 + (k \div tiles_per_row) * 13 + j
                   IN InImage(output_file, x, y) =>
                         Pixel(output_file, x, y)
                            = FontPixel((k % 16) * 12 + i, (k \div 16) * 12 + j)

\* C4 witness: a finished run that used the second appended row and the
\* second row of the font atlas
C4_Witness ==
    /\ pc = "done"
    /\ Len(GlyphPastes) > 16
    /\ Len(GlyphPastes) > tiles_per_row

\* C5, as claimed: in the output the full 12x12 block at
\* (1 + (tiles_per_row-1)*13, H + 14) is opaque white, for every tileset.
C5_Claimed ==
    output_file # NoImage =>
       \A i \in 0..11, j \in 0..11 :
          LET x == 1 + (tiles_per_row - 1) * 13 + i
              y == H + 14 + j
          IN /\ InImage(output_file, x, y)
             /\ Pixel(output_file, x, y) = WHITE

\* C6: with an argument count other than one the script prints the usage
\* line and exits with status 1, having opened no image, created no canvas
\* and written no file; with exactly one argument it never takes that exit.
C6_UsageExit ==
    /\ Len(argv) # 2 =>
          /\ pc \in {"start", "exited"}
          /\ tileset = NoHeader /\ font = NoHeader
          /\ combined = NoImage /\ output_file = NoImage
          /\ io = <<>> /\ pastes = <<>>
          /\ pc = "exited" => /\ exit_status = 1
                              /\ Len(stdout) = 1
                              /\ stdout[1][1] = UsageLine
    /\ Len(argv) = 2 =>
          /\ pc # "exited"
          /\ \A i \in 1..Len(stdout) : stdout[i][1] # UsageLine

\* C6 witness: the usage exit was taken with extra arguments
C6_Witness ==
    /\ pc = "exited"
    /\ Len(argv) > 2

\* row-major slot number of the destination cell a glyph paste wrote
SlotOf(p) == ((p.dy - (H + 1)) \div 13) * tiles_per_row + (p.dx - 1) \div 13

\* C7: glyph_index never exceeds 256 and counts the glyph pastes, no glyph
\* is pasted into a slot numbered 256 or more, and in the output every such
\* slot is fully transparent, except the white bottom-right cell.
C7_FontLimit ==
    /\ glyph_index <= 256
    /\ Len(GlyphPastes) = glyph_index
    /\ \A k \in 1..Len(pastes) : IsGlyph(pastes[k]) => SlotOf(pastes[k]) < 256
    /\ output_file # NoImage =>
          \A r \in 0..1, c \in 0..(tiles_per_row - 1) :
             (r * tiles_per_row + c >= 256 /\ ~(r = 1 /\ c = tiles_per_row - 1))
                => CellIs(output_file, 1 + c * 13, H + 1 + r * 13, TRANSPARENT)

\* C7 witness: the supply ran out inside the first row, the second row broke
\* at once, and the run finished
C7_Witness ==
    /\ pc = "done"
    /\ tiles_per_row > 256
    /\ glyph_index = 256

OpenErrors == {"open_tileset_error", "open_font_error"}
Count(events) == Cardinality({i \in 1..Len(io) : io[i] \in events})

\* C8: a failed open ends the run with a non-zero status, is the last file
\* operation of the run and leaves no output file; no file is opened twice;
\* the output file exists only after both opens and every paste step.
C8_OpenFailureIsFatal ==
    /\ Count(OpenErrors) > 0 =>
          /\ pc = "failed"
          /\ exit_status = 1
          /\ io[Len(io)] \in OpenErrors
          /\ combined = NoImage
          /\ output_file = NoImage
    /\ Count({"open_tileset", "open_tileset_error"}) <= 1
    /\ Count({"open_font", "open_font_error"}) <= 1
    /\ Count({"save", "save_error"}) <= 1
    /\ output_file # NoImage =>
          /\ io = <<"open_tileset", "open_font", "save">>
          /\ tileset # NoHeader /\ font # NoHeader
          /\ row >= 2
          /\ pastes[1].kind = "tileset"
          /\ pastes[Len(pastes)].kind = "white"

\* C8 witness: the tileset opened and the font atlas did not
C8_Witness ==
    /\ pc = "failed"
    /\ io = <<"open_tileset", "open_font_error">>

SpacingClear(im) ==
    /\ \A y \in {H, H + 13, H + 26}, x \in 0..(W - 1) :
          Pixel(im, x, y) = TRANSPARENT
    /\ \A y \in H..(H + 26), k \in 0..((W - 1) \div 13) :
          Pixel(im, 13 * k, y) = TRANSPARENT

\* C9: for tiles_per_row >= 1, no paste ever writes a spacing pixel of the
\* appended region: every pixel of rows H, H+13 and H+26, and every pixel of
\* the region in a column x with x mod 13 = 0, is fully transparent in the
\* canvas at every step and in the output.
C9_SpacingTransparent ==
    tiles_per_row >= 1 =>
       /\ combined # NoImage => SpacingClear(combined)
       /\ output_file # NoImage => SpacingClear(output_file)

\* C9 witness: a finished run with several columns of glyphs
C9_Witness ==
    /\ pc = "done"
    /\ tiles_per_row >= 3
    /\ glyph_index = 2 * tiles_per_row

\* C10, as claimed: every glyph paste and the white paste targets a 12x12
\* rectangle inside the canvas: 0 <= dest_x, dest_x + 12 <= W, H < dest_y,
\* dest_y + 12 <= H + 27.
C10_Claimed ==
    \A k \in 1..Len(pastes) :
       pastes[k].kind \in {"glyph", "white"} =>
          /\ 0 <= pastes[k].dx
          /\ pastes[k].dx + 12 <= W
          /\ H < pastes[k].dy
          /\ pastes[k].dy + 12 <= H + 27

====
